---- MODULE Spec2Model ----
(***************************************************************************)
(* Model of jka236/step_analysis: GithubStepAnalyzer                       *)
(* (src/github_step_analysis.py).                                          *)
(*                                                                         *)
(* Text is modelled as sequences of one-character strings, so that         *)
(* str.split, str.startswith, str.endswith, slicing and int() are computed *)
(* the way Python computes them.                                           *)
(***************************************************************************)
EXTENDS Integers, Sequences, FiniteSets, TLC

VARIABLES
    \* _extract_changed_content
    patch,          \* the patch text handed to _extract_changed_content
    lines,          \* patch.split('\n')
    pos,            \* index in lines of the line the for loop looks at next
    current_line,   \* local current_line
    changed_lines,  \* local changed_lines
    \* analyze_pull_request / _post_analysis_comment
    files,          \* pr.get_files(): sequence of [filename, patch]
    fidx,           \* index in files of the file the for loop is at
    results,        \* local results
    analysis,       \* json.loads(analysis) inside _post_analysis_comment
    idx,            \* loop index of _post_analysis_comment (1-based)
    comments,       \* review comments created on the pull request, in order
    analysis_calls, \* calls made to StepDefinitionAnalyzer.analyze_step
    project_fetches,\* calls made to _get_project_files (one tempdir each)
    pc              \* control position

vars == <<patch, lines, pos, current_line, changed_lines, files, fidx, results,
          analysis, idx, comments, analysis_calls, project_fetches, pc>>

extractVars == <<patch, lines, pos, current_line, changed_lines>>
reviewVars  == <<files, fidx, results, analysis, idx, comments,
                 analysis_calls, project_fetches>>

-----------------------------------------------------------------------------
(* Bounds *)

MaxLines == 4
MaxFiles == 2
MaxFindings == 2

-----------------------------------------------------------------------------
(* Python string primitives on character sequences *)

NL == "\n"

StartsWith(s, p) == Len(s) >= Len(p) /\ SubSeq(s, 1, Len(p)) = p

EndsWith(s, p) == Len(s) >= Len(p) /\ SubSeq(s, Len(s) - Len(p) + 1, Len(s)) = p

\* p in s
RECURSIVE Contains(_, _)
Contains(s, p) ==
    IF Len(s) < Len(p) THEN FALSE
    ELSE StartsWith(s, p) \/ Contains(Tail(s), p)

\* s.split(sep) for a one-character sep: always at least one piece
RECURSIVE Split(_, _)
Split(s, sep) ==
    IF \A k \in 1..Len(s) : s[k] # sep
    THEN <<s>>
    ELSE LET k == CHOOSE k \in 1..Len(s) :
                      s[k] = sep /\ \A j \in 1..(k - 1) : s[j] # sep
         IN  <<SubSeq(s, 1, k - 1)>> \o Split(SubSeq(s, k + 1, Len(s)), sep)

\* sep.join(ls)
RECURSIVE Join(_, _)
Join(ls, sep) ==
    IF ls = <<>> THEN <<>>
    ELSE IF Len(ls) = 1 THEN ls[1]
    ELSE ls[1] \o <<sep>> \o Join(Tail(ls), sep)

DigitChars == {"0", "1", "2", "3", "4", "5", "6", "7", "8", "9"}

DigitVal(c) ==
    CASE c = "0" -> 0 [] c = "1" -> 1 [] c = "2" -> 2 [] c = "3" -> 3
      [] c = "4" -> 4 [] c = "5" -> 5 [] c = "6" -> 6 [] c = "7" -> 7
      [] c = "8" -> 8 [] c = "9" -> 9

IsSpace(c) == c \in {" ", "\t", "\r", "\n"}

RECURSIVE LStrip(_)
LStrip(s) == IF s # <<>> /\ IsSpace(Head(s)) THEN LStrip(Tail(s)) ELSE s

RECURSIVE RStrip(_)
RStrip(s) ==
    IF s # <<>> /\ IsSpace(s[Len(s)]) THEN RStrip(SubSeq(s, 1, Len(s) - 1)) ELSE s

Strip(s) == RStrip(LStrip(s))

\* the text after the optional sign of a stripped int() argument
Unsigned(s) ==
    LET t == Strip(s)
    IN  IF t # <<>> /\ Head(t) \in {"+", "-"} THEN Tail(t) ELSE t

\* whether int(s) succeeds (base 10: optional whitespace, optional sign,
\* digits with single underscores between them)
IsIntLiteral(s) ==
    LET u == Unsigned(s)
    IN  /\ u # <<>>
        /\ \A k \in 1..Len(u) : u[k] \in DigitChars \cup {"_"}
        /\ u[1] \in DigitChars
        /\ u[Len(u)] \in DigitChars
        /\ \A k \in 1..(Len(u) - 1) : ~(u[k] = "_" /\ u[k + 1] = "_")

RECURSIVE DigitsValue(_, _)
DigitsValue(u, acc) ==
    IF u = <<>> THEN acc
    ELSE IF Head(u) = "_" THEN DigitsValue(Tail(u), acc)
    ELSE DigitsValue(Tail(u), 10 * acc + DigitVal(Head(u)))

\* int(s) when IsIntLiteral(s)
IntValue(s) ==
    LET t == Strip(s)
        v == DigitsValue(Unsigned(s), 0)
    IN  IF t # <<>> /\ Head(t) = "-" THEN 0 - v ELSE v

-----------------------------------------------------------------------------
(* Inputs: the lines patches are built from *)

\* "@@ -1,2 +1,3 @@"
HunkA == <<"@", "@", " ", "-", "1", ",", "2", " ", "+", "1", ",", "3", " ", "@", "@">>
\* "@@ -10,1 +12,2 @@"
HunkB == <<"@", "@", " ", "-", "1", "0", ",", "1", " ", "+", "1", "2", ",", "2", " ", "@", "@">>
\* "@@ -3 +5 @@": a one-line hunk, written without ",<len>"
HunkNoLen == <<"@", "@", " ", "-", "3", " ", "+", "5", " ", "@", "@">>
\* "@@ -1,2 @@": no '+' part
HunkNoPlus == <<"@", "@", " ", "-", "1", ",", "2", " ", "@", "@">>
\* "@@ -1 +x,2 @@": not an integer after '+'
HunkNonInt == <<"@", "@", " ", "-", "1", " ", "+", "x", ",", "2", " ", "@", "@">>
\* " c": a context line
ContextLine == <<" ", "c">>
\* "+a": an added line
AddedA == <<"+", "a">>
\* "-r": a removed line
RemovedLine == <<"-", "r">>
\* "+++i": an added line whose text is "++i"
AddedPlusPlus == <<"+", "+", "+", "i">>
\* "": an empty line (a patch ending in a newline ends with one)
EmptyLine == <<>>

LinePool == {HunkA, HunkB, HunkNoLen, HunkNoPlus, HunkNonInt, ContextLine,
             AddedA, RemovedLine, AddedPlusPlus, EmptyLine}

LineSeqs == UNION {[1..n -> LinePool] : n \in 1..MaxLines}

PatchTexts == {Join(ls, NL) : ls \in LineSeqs}

-----------------------------------------------------------------------------
(* _extract_changed_content, lines 56-89 *)

\* line.split('+')[1].split(',')[0] followed by int(...), with the exception
\* the try block ends in: "none" when int() returned
parse_new_start(line) ==
    LET parts == Split(line, "+")
    IN  IF Len(parts) < 2
        THEN [exc |-> "IndexError", value |-> 0]
        ELSE LET line_info == Split(parts[2], ",")[1]
             IN  IF IsIntLiteral(line_info)
                 THEN [exc |-> "none", value |-> IntValue(line_info)]
                 ELSE [exc |-> "ValueError", value |-> 0]

\* A faulty variant: a failed parse resets the count instead of leaving it alone.
header_step_resets(cur, line) ==
    LET o == parse_new_start(line)
    IN  IF o.exc = "none"
        THEN [current_line |-> o.value - 1, raised |-> FALSE]
        ELSE [current_line |-> 0, raised |-> FALSE]

\* the branch `if line.startswith('@@')`: try / except (IndexError, ValueError)
header_step(cur, line) ==
    LET o == parse_new_start(line)
    IN  IF o.exc = "none"
        THEN [current_line |-> o.value - 1, raised |-> FALSE]
        ELSE IF o.exc \in {"IndexError", "ValueError"}
        THEN [current_line |-> cur, raised |-> FALSE]
        ELSE [current_line |-> cur, raised |-> TRUE]

\* A faulty variant: the count advances only on lines that are not recorded.
content_step_no_advance(cur, changed, line) ==
    IF StartsWith(line, <<"+">>) /\ ~StartsWith(line, <<"+", "+", "+">>)
    THEN [current_line |-> cur,
          changed_lines |-> Append(changed, [content |-> Tail(line),
                                             line_number |-> cur])]
    ELSE [current_line |-> cur + 1, changed_lines |-> changed]

\* A faulty variant: the count is read before it is advanced.
content_step_post_increment(cur, changed, line) ==
    IF StartsWith(line, <<"+">>) /\ ~StartsWith(line, <<"+", "+", "+">>)
    THEN [current_line |-> cur + 1,
          changed_lines |-> Append(changed, [content |-> Tail(line),
                                             line_number |-> cur])]
    ELSE [current_line |-> cur + 1, changed_lines |-> changed]

\* the else branch: current_line += 1, then the '+' / '+++' test and append
content_step(cur, changed, line) ==
    IF StartsWith(line, <<"+">>) /\ ~StartsWith(line, <<"+", "+", "+">>)
    THEN [current_line |-> cur + 1,
          changed_lines |-> Append(changed, [content |-> Tail(line),
                                             line_number |-> cur + 1])]
    ELSE [current_line |-> cur + 1, changed_lines |-> changed]

IsHeaderLine(line) == StartsWith(line, <<"@", "@">>)

\* the for loop from line ls[1] on, as a function of the text
RECURSIVE scan_lines(_, _, _)
scan_lines(ls, cur, changed) ==
    IF ls = <<>> THEN changed
    ELSE IF IsHeaderLine(Head(ls))
    THEN scan_lines(Tail(ls), header_step(cur, Head(ls)).current_line, changed)
    ELSE LET r == content_step(cur, changed, Head(ls))
         IN  scan_lines(Tail(ls), r.current_line, r.changed_lines)

\* _extract_changed_content(patch) as a function of the text
extract_changed_content(p) ==
    IF p = <<>> THEN <<>> ELSE scan_lines(Split(p, NL), 0, <<>>)

\* `if not patch: return []`
ExtractEmptyPatch ==
    /\ pc = "call"
    /\ patch = <<>>
    /\ changed_lines' = <<>>
    /\ pc' = "extracted"
    /\ UNCHANGED <<patch, lines, pos, current_line>>
    /\ UNCHANGED reviewVars

\* changed_lines = []; current_line = 0; patch.split('\n')
ExtractBegin ==
    /\ pc = "call"
    /\ patch # <<>>
    /\ lines' = Split(patch, NL)
    /\ pos' = 1
    /\ current_line' = 0
    /\ changed_lines' = <<>>
    /\ pc' = "extracting"
    /\ UNCHANGED patch
    /\ UNCHANGED reviewVars

\* one iteration on a '@@' line whose new start parses
HeaderParsed ==
    /\ pc = "extracting"
    /\ pos <= Len(lines)
    /\ IsHeaderLine(lines[pos])
    /\ parse_new_start(lines[pos]).exc = "none"
    /\ current_line' = header_step(current_line, lines[pos]).current_line
    /\ pos' = pos + 1
    /\ UNCHANGED <<patch, lines, changed_lines, pc>>
    /\ UNCHANGED reviewVars

\* one iteration on a '@@' line whose parse raises
HeaderSkipped ==
    /\ pc = "extracting"
    /\ pos <= Len(lines)
    /\ IsHeaderLine(lines[pos])
    /\ parse_new_start(lines[pos]).exc # "none"
    /\ LET r == header_step(current_line, lines[pos])
       IN  /\ current_line' = r.current_line
           /\ IF r.raised
              THEN pc' = "raised" /\ pos' = pos
              ELSE pc' = pc /\ pos' = pos + 1
    /\ UNCHANGED <<patch, lines, changed_lines>>
    /\ UNCHANGED reviewVars

\* one iteration on any other line
ContentLine ==
    /\ pc = "extracting"
    /\ pos <= Len(lines)
    /\ ~IsHeaderLine(lines[pos])
    /\ LET r == content_step(current_line, changed_lines, lines[pos])
       IN  /\ current_line' = r.current_line
           /\ changed_lines' = r.changed_lines
    /\ pos' = pos + 1
    /\ UNCHANGED <<patch, lines, pc>>
    /\ UNCHANGED reviewVars

\* return changed_lines
ExtractReturn ==
    /\ pc = "extracting"
    /\ pos > Len(lines)
    /\ pc' = "extracted"
    /\ UNCHANGED extractVars
    /\ UNCHANGED reviewVars

\* a call of _extract_changed_content on any patch text
InitExtract ==
    /\ patch \in PatchTexts
    /\ lines = <<>>
    /\ pos = 0
    /\ current_line = 0
    /\ changed_lines = <<>>
    /\ files = <<>>
    /\ fidx = 0
    /\ results = <<>>
    /\ analysis = [issues |-> <<>>, suggestions |-> <<>>, line_number |-> <<>>]
    /\ idx = 0
    /\ comments = <<>>
    /\ analysis_calls = <<>>
    /\ project_fetches = <<>>
    /\ pc = "call"

NextExtract ==
    \/ ExtractEmptyPatch
    \/ ExtractBegin
    \/ HeaderParsed
    \/ HeaderSkipped
    \/ ContentLine
    \/ ExtractReturn

SpecExtract == InitExtract /\ [][NextExtract]_vars

-----------------------------------------------------------------------------
(* _is_step_definition, lines 92-99 *)

\* "Steps.java"
SuffixSteps ==
    <<"S", "t", "e", "p", "s", ".", "j", "a", "v", "a">>
\* "StepDefinitions.java"
SuffixStepDefinitions ==
    <<"S", "t", "e", "p", "D", "e", "f", "i", "n", "i", "t", "i", "o", "n",
      "s", ".", "j", "a", "v", "a">>
\* "StepsImpl.java"
SuffixStepsImpl ==
    <<"S", "t", "e", "p", "s", "I", "m", "p", "l", ".", "j", "a", "v", "a">>
\* "StepDefs.java"
SuffixStepDefs ==
    <<"S", "t", "e", "p", "D", "e", "f", "s", ".", "j", "a", "v", "a">>
\* "LoginSteps.java"
NameLoginSteps ==
    <<"L", "o", "g", "i", "n", "S", "t", "e", "p", "s", ".", "j", "a", "v",
      "a">>
\* "a/StepDefs.java"
NameStepDefs ==
    <<"a", "/", "S", "t", "e", "p", "D", "e", "f", "s", ".", "j", "a", "v",
      "a">>
\* "Steps.java.bak"
NameBackup ==
    <<"S", "t", "e", "p", "s", ".", "j", "a", "v", "a", ".", "b", "a", "k">>
\* "loginsteps.java"
NameLowerCase ==
    <<"l", "o", "g", "i", "n", "s", "t", "e", "p", "s", ".", "j", "a", "v",
      "a">>
\* "README.md"
NameReadme ==
    <<"R", "E", "A", "D", "M", "E", ".", "m", "d">>

\* A faulty variant: the suffix is looked for anywhere in the name.
is_step_definition_anywhere(filename) ==
    \/ Contains(filename, SuffixSteps)
    \/ Contains(filename, SuffixStepDefinitions)
    \/ Contains(filename, SuffixStepsImpl)
    \/ Contains(filename, SuffixStepDefs)

is_step_definition(filename) ==
    \/ EndsWith(filename, SuffixSteps)
    \/ EndsWith(filename, SuffixStepDefinitions)
    \/ EndsWith(filename, SuffixStepsImpl)
    \/ EndsWith(filename, SuffixStepDefs)

-----------------------------------------------------------------------------
(* Inputs: the files of a pull request and the capability's answers *)

\* the paths of the model's pull requests, in path order
NameSeq == <<NameLoginSteps, NameReadme, NameBackup, NameStepDefs, NameLowerCase>>

NamePool == {NameSeq[i] : i \in 1..Len(NameSeq)}

NameIndex(name) == CHOOSE i \in 1..Len(NameSeq) : NameSeq[i] = name

\* file.patch of a file without a textual diff
PatchNone == <<>>
\* Scenario A: one added line, at line 2 of the new file
PatchScenarioA == Join(<<HunkA, ContextLine, AddedA, ContextLine>>, NL)
\* a deletion only: nothing added
PatchDeletion == Join(<<HunkNoLen, RemovedLine>>, NL)

PatchPool == {PatchNone, PatchScenarioA, PatchDeletion}

FilePool == [filename : NamePool, patch : PatchPool]

\* pr.get_files(): every path appears once, and the files come in path order
FileLists ==
    {fs \in UNION {[1..n -> FilePool] : n \in 0..MaxFiles} :
        \A i \in 1..(Len(fs) - 1) :
            NameIndex(fs[i].filename) < NameIndex(fs[i + 1].filename)}

\* what StepAnalysis can hold after parsing: three lists whose lengths the
\* model class does not relate
DigitChar(i) == <<"0", "1", "2", "3", "4", "5", "6", "7", "8", "9">>[i + 1]
\* "issue <i>" and "fix <i>"
Issue(i) == <<"i", "s", "s", "u", "e", " ", DigitChar(i)>>
Suggestion(i) == <<"f", "i", "x", " ", DigitChar(i)>>
ReportedLine(i) == 40 - i

AnalysisResults ==
    {[issues      |-> [i \in 1..n |-> Issue(i)],
      suggestions |-> [i \in 1..m |-> Suggestion(i)],
      line_number |-> [i \in 1..k |-> ReportedLine(i)]] :
        n \in 0..MaxFindings, m \in 0..MaxFindings, k \in 0..MaxFindings}

-----------------------------------------------------------------------------
(* analyze_pull_request, lines 17-54, and _post_analysis_comment, 135-157 *)

\* the f-string of _post_analysis_comment
\* "\n### Issues Found:\n"
IssuesHeading ==
    <<"\n", "#", "#", "#", " ", "I", "s", "s", "u", "e", "s", " ", "F", "o",
      "u", "n", "d", ":", "\n">>
\* "\n\n### Suggestions:\n"
SuggestionsHeading ==
    <<"\n", "\n", "#", "#", "#", " ", "S", "u", "g", "g", "e", "s", "t", "i",
      "o", "n", "s", ":", "\n">>

format_comment(issue, suggestion) ==
    IssuesHeading \o issue \o SuggestionsHeading \o suggestion \o <<NL>>

\* A faulty variant: the comment goes to the line the extractor recovered.
review_comment_at_changed_line(path, a, changes, i) ==
    [path |-> path,
     line |-> changes[1].line_number,
     body |-> format_comment(a.issues[i], a.suggestions[i])]

\* the arguments of pr.create_review_comment for index i
review_comment(path, a, changes, i) ==
    [path |-> path,
     line |-> a.line_number[i],
     body |-> format_comment(a.issues[i], a.suggestions[i])]

CurrentFile == files[fidx]

\* `if self._is_step_definition(file.filename)` is false: next file
SkipNotStepDefinition ==
    /\ pc = "next_file"
    /\ fidx <= Len(files)
    /\ ~is_step_definition(CurrentFile.filename)
    /\ fidx' = fidx + 1
    /\ UNCHANGED <<files, results, analysis, idx, comments, analysis_calls,
                   project_fetches, pc>>
    /\ UNCHANGED extractVars

\* `if not patch: continue`
SkipNoPatch ==
    /\ pc = "next_file"
    /\ fidx <= Len(files)
    /\ is_step_definition(CurrentFile.filename)
    /\ CurrentFile.patch = <<>>
    /\ fidx' = fidx + 1
    /\ UNCHANGED <<files, results, analysis, idx, comments, analysis_calls,
                   project_fetches, pc>>
    /\ UNCHANGED extractVars

\* changed_content = self._extract_changed_content(patch): the call
CallExtract ==
    /\ pc = "next_file"
    /\ fidx <= Len(files)
    /\ is_step_definition(CurrentFile.filename)
    /\ CurrentFile.patch # <<>>
    /\ patch' = CurrentFile.patch
    /\ pc' = "call"
    /\ UNCHANGED <<lines, pos, current_line, changed_lines>>
    /\ UNCHANGED reviewVars

\* `if not changed_content: continue`
SkipNoChanges ==
    /\ pc = "extracted"
    /\ changed_lines = <<>>
    /\ fidx' = fidx + 1
    /\ pc' = "next_file"
    /\ UNCHANGED <<files, results, analysis, idx, comments, analysis_calls,
                   project_fetches>>
    /\ UNCHANGED extractVars

\* analyze_step raises (the capability is unreachable, or its answer does not
\* parse): nothing in analyze_pull_request catches it
AnalyzeRaises ==
    /\ pc = "extracted"
    /\ changed_lines # <<>>
    /\ project_fetches' = Append(project_fetches, CurrentFile.filename)
    /\ analysis_calls' = Append(analysis_calls,
                                [file |-> CurrentFile.filename,
                                 target_step |-> changed_lines])
    /\ pc' = "raised"
    /\ UNCHANGED <<files, fidx, results, analysis, idx, comments>>
    /\ UNCHANGED extractVars

\* analyze_step returns; results.append(...); _post_analysis_comment starts
AnalyzeReturns ==
    /\ pc = "extracted"
    /\ changed_lines # <<>>
    /\ \E a \in AnalysisResults :
          /\ analysis' = a
          /\ results' = Append(results, [file |-> CurrentFile.filename,
                                         analysis |-> a,
                                         changes |-> changed_lines])
    /\ project_fetches' = Append(project_fetches, CurrentFile.filename)
    /\ analysis_calls' = Append(analysis_calls,
                                [file |-> CurrentFile.filename,
                                 target_step |-> changed_lines])
    /\ idx' = 1
    /\ pc' = "posting"
    /\ UNCHANGED <<files, fidx, comments>>
    /\ UNCHANGED extractVars

\* one iteration of `for idx, _ in enumerate(analysis["issues"])` that
\* reaches pr.create_review_comment
PostComment ==
    /\ pc = "posting"
    /\ idx <= Len(analysis.issues)
    /\ idx <= Len(analysis.suggestions)
    /\ idx <= Len(analysis.line_number)
    /\ comments' = Append(comments,
                          review_comment(CurrentFile.filename, analysis,
                                         changed_lines, idx))
    /\ idx' = idx + 1
    /\ UNCHANGED <<files, fidx, results, analysis, analysis_calls,
                   project_fetches, pc>>
    /\ UNCHANGED extractVars

\* analysis['suggestions'][idx] or analysis['line_number'][idx] raises
\* IndexError, which leaves analyze_pull_request
PostIndexError ==
    /\ pc = "posting"
    /\ idx <= Len(analysis.issues)
    /\ \/ idx > Len(analysis.suggestions)
       \/ idx > Len(analysis.line_number)
    /\ pc' = "raised"
    /\ UNCHANGED <<files, fidx, results, analysis, idx, comments,
                   analysis_calls, project_fetches>>
    /\ UNCHANGED extractVars

\* the loop of _post_analysis_comment ends: next file
PostDone ==
    /\ pc = "posting"
    /\ idx > Len(analysis.issues)
    /\ fidx' = fidx + 1
    /\ pc' = "next_file"
    /\ UNCHANGED <<files, results, analysis, idx, comments, analysis_calls,
                   project_fetches>>
    /\ UNCHANGED extractVars

\* return results
Return ==
    /\ pc = "next_file"
    /\ fidx > Len(files)
    /\ pc' = "returned"
    /\ UNCHANGED reviewVars
    /\ UNCHANGED extractVars

\* analyze_pull_request has been called on a pull request
Init ==
    /\ files \in FileLists
    /\ fidx = 1
    /\ results = <<>>
    /\ analysis = [issues |-> <<>>, suggestions |-> <<>>, line_number |-> <<>>]
    /\ idx = 0
    /\ comments = <<>>
    /\ analysis_calls = <<>>
    /\ project_fetches = <<>>
    /\ patch = <<>>
    /\ lines = <<>>
    /\ pos = 0
    /\ current_line = 0
    /\ changed_lines = <<>>
    /\ pc = "next_file"

Next ==
    \/ SkipNotStepDefinition
    \/ SkipNoPatch
    \/ CallExtract
    \/ ExtractBegin
    \/ HeaderParsed
    \/ HeaderSkipped
    \/ ContentLine
    \/ ExtractReturn
    \/ SkipNoChanges
    \/ AnalyzeRaises
    \/ AnalyzeReturns
    \/ PostComment
    \/ PostIndexError
    \/ PostDone
    \/ Return

Spec == Init /\ [][Next]_vars

-----------------------------------------------------------------------------
(* Properties of _extract_changed_content, checked under SpecExtract *)

IsAddedLine(line) == StartsWith(line, <<"+">>)
IsRemovedLine(line) == StartsWith(line, <<"-">>)
IsContextLine(line) == StartsWith(line, <<" ">>)
\* a line the code treats as diff metadata although it begins with '+'
IsPlusPlusPlus(line) == StartsWith(line, <<"+", "+", "+">>)

\* where the lines beginning with '+' are
AddedPositions(ls) ==
    SelectSeq([p \in 1..Len(ls) |-> p], LAMBDA p : IsAddedLine(ls[p]))

\* where the lines beginning with '+' but not with '+++' are
RecordedPositions(ls) ==
    SelectSeq([p \in 1..Len(ls) |-> p],
              LAMBDA p : IsAddedLine(ls[p]) /\ ~IsPlusPlusPlus(ls[p]))

Contents(changed) == [k \in 1..Len(changed) |-> changed[k].content]
LineNumbers(changed) == [k \in 1..Len(changed) |-> changed[k].line_number]

\* the lines the loop has been through
Scanned == SubSeq(lines, 1, pos - 1)

\* headers of the form '@@ -a,b +c,d @@', with their c
WellFormedNewStart == (HunkA :> 1) @@ (HunkB :> 12)
\* headers of the form '@@ -a[,b] +c[,d] @@', with their c
PatternNewStart == WellFormedNewStart @@ (HunkNoLen :> 5)
\* '@@' lines without a new-file start
MalformedHeaders == {HunkNoPlus, HunkNonInt}

\* C1 (as claimed): a removed line is never recorded and never advances
\* current_line: the result is what the patch gives with its removed lines
\* deleted from the text.
C1_RemovedLinesDoNotPerturb ==
    pc = "extracted" =>
        changed_lines =
            extract_changed_content(
                Join(SelectSeq(lines, LAMBDA l : ~IsRemovedLine(l)), NL))

IsParsedHeader(line) == IsHeaderLine(line) /\ parse_new_start(line).exc = "none"

C5_Patch(ls) ==
    /\ ls # <<>>
    /\ ls[1] \in DOMAIN WellFormedNewStart
    /\ \A p \in 1..Len(ls) :
          \/ ls[p] \in DOMAIN WellFormedNewStart
          \/ IsContextLine(ls[p])
          \/ IsAddedLine(ls[p]) /\ ~IsPlusPlusPlus(ls[p])

\* the header line p belongs to
HeaderBefore(ls, p) ==
    CHOOSE h \in 1..p :
        /\ ls[h] \in DOMAIN WellFormedNewStart
        /\ \A q \in (h + 1)..p : ls[q] \notin DOMAIN WellFormedNewStart

C5_Expected(ls) ==
    LET ap == AddedPositions(ls)
    IN  [k \in 1..Len(ap) |->
            LET p == ap[k]
                h == HeaderBefore(ls, p)
            IN  [content |-> Tail(ls[p]),
                 line_number |-> WellFormedNewStart[ls[h]] + (p - h) - 1]]

C6_RoundTrip ==
    pc = "extracted" =>
        Contents(changed_lines) =
            LET ap == AddedPositions(lines)
            IN  [k \in 1..Len(ap) |-> Tail(lines[ap[k]])]

\* C9: a '@@' line without a parsable new-file start is skipped: the loop
\* goes on to the next line, current_line and the recorded lines keep their
\* values, no error leaves the extraction.
C9_MalformedHeaderSkipped ==
    [][(/\ pc = "extracting"
        /\ pos <= Len(lines)
        /\ lines[pos] \in MalformedHeaders)
       => (/\ pc' = "extracting"
           /\ pos' = pos + 1
           /\ lines' = lines
           /\ current_line' = current_line
           /\ changed_lines' = changed_lines)]_vars

\* C9 witness: the line after a malformed header is numbered from the count
\* the hunk before it left
C9_Witness ==
    /\ pc = "extracting"
    /\ pos = 4
    /\ lines[1] = HunkB
    /\ lines[2] \in MalformedHeaders
    /\ lines[3] = AddedA
    /\ changed_lines = <<[content |-> <<"a">>, line_number |-> 12]>>

\* C10 (as claimed): every header '@@ -a[,b] +c[,d] @@' sets current_line to
\* c - 1, also without ',d'.
C10_HeaderSetsCurrentLine ==
    [][(/\ pc = "extracting"
        /\ pos <= Len(lines)
        /\ lines[pos] \in DOMAIN PatternNewStart)
       => current_line' = PatternNewStart[lines[pos]] - 1]_vars

-----------------------------------------------------------------------------
(* Properties of analyze_pull_request, checked under Spec *)

Consistent(a) ==
    /\ Len(a.issues) = Len(a.suggestions)
    /\ Len(a.suggestions) = Len(a.line_number)

CommentsFor(path) == SelectSeq(comments, LAMBDA c : c.path = path)

InSeq(x, s) == \E j \in 1..Len(s) : s[j] = x

\* C2 (as claimed): no comment is ever posted for a file whose result has
\* lists of differing lengths.
C2_MismatchPostsNothing ==
    \A k \in 1..Len(results) :
        ~Consistent(results[k].analysis) => CommentsFor(results[k].file) = <<>>

\* C3 (as claimed): a failed analysis call does not end the run with an error
\* raised to the caller.
C3_AnalysisFailureNotRaised ==
    Len(analysis_calls) > Len(results) => pc # "raised"

RecognizedSuffixes ==
    {SuffixSteps, SuffixStepDefinitions, SuffixStepsImpl, SuffixStepDefs}

HasRecognizedSuffix(name) == \E s \in RecognizedSuffixes : EndsWith(name, s)

\* C7: a file whose name ends with none of the recognized suffixes is never
\* analysed, has no project context fetched for it, gets no comment and no
\* entry in the results.
C7_OtherFilesSkipped ==
    \A i \in 1..Len(files) :
        ~HasRecognizedSuffix(files[i].filename) =>
            /\ \A k \in 1..Len(analysis_calls) :
                  analysis_calls[k].file # files[i].filename
            /\ ~InSeq(files[i].filename, project_fetches)
            /\ CommentsFor(files[i].filename) = <<>>
            /\ \A k \in 1..Len(results) : results[k].file # files[i].filename

\* C7 witness: a skipped file with added lines, beside a reviewed one
C7_Witness ==
    /\ pc = "returned"
    /\ Len(files) = 2
    /\ files[1] = [filename |-> NameBackup, patch |-> PatchScenarioA]
    /\ files[2] = [filename |-> NameStepDefs, patch |-> PatchScenarioA]
    /\ Len(comments) = 2
    /\ Len(analysis_calls) = 1

\* C8: a result with n issues, n suggestions and n line numbers gets exactly
\* n comments, the i-th on the file's path at line_number[i] with a body
\* holding issues[i] and suggestions[i].
C8_OneCommentPerFinding ==
    \A k \in 1..Len(results) :
        LET r == results[k]
            a == r.analysis
            cs == CommentsFor(r.file)
        IN  Consistent(a) =>
                /\ Len(cs) <= Len(a.issues)
                /\ ~(pc = "posting" /\ k = Len(results)) => Len(cs) = Len(a.issues)
                /\ \A i \in 1..Len(cs) :
                      /\ cs[i].line = a.line_number[i]
                      /\ Contains(cs[i].body, a.issues[i])
                      /\ Contains(cs[i].body, a.suggestions[i])

\* C8 witness: two findings posted at the reported lines 39 and 38, not at
\* line 2 where the extractor found the change
C8_Witness ==
    /\ pc = "returned"
    /\ Len(results) = 1
    /\ Consistent(results[1].analysis)
    /\ LineNumbers(results[1].changes) = <<2>>
    /\ [i \in 1..Len(comments) |-> comments[i].line] = <<39, 38>>

====
